---- MODULE Spec2Model ----
(***************************************************************************)
(* Model of video-to-keyframes: the threshold calibrator                   *)
(* (src/nframes.py, SimilarityInference) and the extraction selector       *)
(* (src/processor.py, VideoProcessor).                                     *)
(*                                                                         *)
(* A video is a stream of frames 1..nFrames (frame k of the model is the   *)
(* frame with index k-1 of the code).  The pixel metrics are given by two  *)
(* tables over frame pairs <<i, j>> (frame i against the earlier frame j): *)
(* hist[<<i,j>>] is cv2.compareHist(HISTCMP_CORREL) and ssim[<<i,j>>] the  *)
(* structural similarity, or Fail when the SSIM call raises.  Raw scores   *)
(* are in units of 1/RawDen, combined scores in units of 1/ScoreDen.       *)
(* Thresholds are Python floats; the bisection only produces dyadic values *)
(* k / 2^50, held exactly as two limbs <<hi, lo>> == (hi*Limb+lo)/Limb^2.  *)
(***************************************************************************)
EXTENDS Integers, Sequences, FiniteSets, TLC

VARIABLES
    \* ---- the video source seen by the calibrator ----
    nFrames,        \* metadata.frame_count, the length of the stream
    decodable,      \* frames read_frame() yields before it returns ret = False
    channels,       \* 1: single-channel frames, 3: BGR frames
    hist,           \* histogram correlation table
    ssim,           \* structural similarity table (Fail: the call raises)
    \* ---- SimilarityInference.infer_threshold ----
    target,         \* target_frames
    hasCallback,    \* progress_callback is not None
    ipc,            \* position of infer_threshold
    run,            \* 0: not called yet, 1: first call, 2: second call
    low, high, threshold, iterations, search_path, frame_count,
    result,         \* <<>> or <<InferenceResult>>
    raisedBy,       \* which statement raised
    openHandles,    \* VideoReader handles currently open
    passes,         \* count passes started in this call
    callbacks,      \* progress_callback invocations in this call
    firstOutcome,   \* <<>> or <<[ipc, result, raisedBy]>> of the first call
    \* ---- two selections over one stream (thresholds t1, t2) ----
    t1, t2, applied, res1, res2,
    \* ---- VideoProcessor ----
    buffer_size, similarity_threshold, detect_keyframes,
    recent_frames,  \* self._recent_frames, deque(maxlen=5) of <<pass, frame>>
    ppc, remaining, streamChannels, processed_frames, frames_batch,
    selected, output_files, cause, videoOpen, sequential

videoVars == <<nFrames, decodable, channels, hist, ssim>>
inferVars == <<target, hasCallback, ipc, run, low, high, threshold, iterations,
               search_path, frame_count, result, raisedBy, openHandles, passes,
               callbacks, firstOutcome>>
pureVars  == <<t1, t2, applied, res1, res2>>
procVars  == <<buffer_size, similarity_threshold, detect_keyframes, recent_frames,
               ppc, remaining, streamChannels, processed_frames, frames_batch,
               selected, output_files, cause, videoOpen, sequential>>
vars == <<videoVars, inferVars, pureVars, procVars>>

-----------------------------------------------------------------------------
(* Bounds of the model *)

MaxFrames == 2          \* longest enumerated video of the calibrator runs
MaxCountLen == 3        \* longest stream of the count-pass comparison
MaxSelectLen == 4       \* longest stream of the selector comparison
LongLen == 201          \* length of the long alternating video
MaxStream == 3          \* longest stream of a process_video pass
MaxBuffer == 2          \* largest config.buffer_size
AltLen == 100           \* length of the alternating stream of the two-policy comparison

(* Program constants *)

max_iterations == 50
ToleranceNum == 2       \* self.tolerance = 0.002 == ToleranceNum / ToleranceDen
ToleranceDen == 1000
SpecToleranceNum == 5   \* the documented tolerance, 0.5% == 5 / 1000
RecentMaxLen == 5       \* deque(maxlen=5)

-----------------------------------------------------------------------------
(* Floats of the bisection: exact dyadic values in two limbs *)

Limb == 2^25

DZero == <<0, 0>>
DOne == <<Limb, 0>>

DLess(a, b) == a[1] < b[1] \/ (a[1] = b[1] /\ a[2] < b[2])

\* (a + b) // 2
DMidFloor(a, b) ==
    LET lo == a[2] + b[2]
        hi == a[1] + b[1] + (lo \div Limb)
    IN  <<((hi \div 2) \div Limb) * Limb, 0>>
\* (a + b) / 2
DMid(a, b) ==
    LET lo == a[2] + b[2]
        hi == a[1] + b[1] + (lo \div Limb)
        l  == lo % Limb
    IN  <<hi \div 2, (hi % 2) * (Limb \div 2) + (l \div 2)>>

RawDen == 2^3
ScoreDen == 2 * RawDen
Fail == RawDen + 1
None == 0

\* a combined score (units of 1/ScoreDen) as a dyadic value
ScoreD(s) == <<s * (Limb \div ScoreDen), 0>>
\* score < threshold
ScoreLess(s, thr) == DLess(ScoreD(s), thr)

\* a threshold given in units of 1/ScoreDen
Thr(k) == <<k * (Limb \div ScoreDen), 0>>

-----------------------------------------------------------------------------
(* Frame pairs and score tables *)

\* the pairs a count pass reads: frame i against frames i-1 and i-2
BandPairs(n) == {p \in (1..n) \X (1..n) : p[2] < p[1] /\ p[1] - p[2] <= 2}
\* the pairs a selector can read: frame i against any earlier frame
AllPairs(n) == {p \in (1..n) \X (1..n) : p[2] < p[1]}

SsimVals == {0, RawDen \div 2, RawDen}

-----------------------------------------------------------------------------
(* SimilarityInference._count_frames_with_threshold, src/nframes.py:140-190 *)

PassInit ==
    [frame_count |-> 0, frames_processed |-> 0, prev_frame |-> None,
     prev_frame_2 |-> None, prev_gray_2 |-> None, raised |-> FALSE]

\* lines 155-165: the two-step-back grayscale anchor after the conversion
PrevGray2(st, ch) ==
    IF ch = 3
    THEN (IF st.prev_frame_2 # None THEN st.prev_frame_2 ELSE st.prev_gray_2)
    ELSE (IF st.prev_frame_2 # None THEN st.prev_frame_2 ELSE st.prev_frame)

\* lines 167-181: <<similarity1, similarity2>> in units of 1/ScoreDen.  Both
\* SSIM calls sit in one try block, so either failing leaves both scores as
\* the histogram correlations; line 178 adds ssim (of the previous frame) to
\* similarity2, not ssim2.
Similarities(i, a1, a2, H, S) ==
    IF S[<<i, a1>>] # Fail /\ S[<<i, a2>>] # Fail
    THEN <<H[<<i, a1>>] + S[<<i, a1>>], H[<<i, a2>>] + S[<<i, a1>>]>>
    ELSE <<2 * H[<<i, a1>>], 2 * H[<<i, a2>>]>>

\* line 183
CountedInverted(sims, thr) == ~ScoreLess(sims[1], thr) \/ ~ScoreLess(sims[2], thr)
Counted(sims, thr) == ScoreLess(sims[1], thr) \/ ScoreLess(sims[2], thr)

\* lines 151-188: one iteration of the read loop on frame i
CountStep(st, i, ch, H, S, thr) ==
    IF st.prev_frame = None
    THEN [st EXCEPT !.frame_count = @ + 1, !.frames_processed = @ + 1,
                    !.prev_frame = i]
    ELSE LET g2 == PrevGray2(st, ch) IN
         IF g2 = None
         THEN [st EXCEPT !.raised = TRUE]     \* calcHist([None], ...) raises
         ELSE LET sims == Similarities(i, st.prev_frame, g2, H, S) IN
              [st EXCEPT !.frame_count = IF Counted(sims, thr) THEN @ + 1 ELSE @,
                         !.frames_processed = @ + 1,
                         !.prev_gray_2 = g2,
                         !.prev_frame_2 = st.prev_frame,
                         !.prev_frame = i]

\* lines 146-149: the read loop over frames from..to, in order (split in
\* halves only to keep the evaluation shallow); a raise ends the pass
RECURSIVE CountLoop(_, _, _, _, _, _, _)
CountLoop(st, from, to, ch, H, S, thr) ==
    IF from > to \/ st.raised THEN st
    ELSE IF from = to THEN CountStep(st, from, ch, H, S, thr)
    ELSE LET mid == (from + to) \div 2
             half == CountLoop(st, from, mid, ch, H, S, thr)
         IN  CountLoop(half, mid + 1, to, ch, H, S, thr)

\* lines 146-149: the frames a pass reads, of a stream whose reader yields
\* `yielded` frames before read_frame returns ret = False and whose metadata
\* announces `announced` frames
FramesReadByMetadata(yielded, announced) == announced
FramesRead(yielded, announced) == yielded

\* the whole pass over the n frames the reader yields
CountFrames(n, ch, H, S, thr) == CountLoop(PassInit, 1, n, ch, H, S, thr)

-----------------------------------------------------------------------------
(* Defaults of the variables a specification does not use *)

VideoIdle == nFrames = 0 /\ decodable = 0 /\ channels = 1 /\ hist = <<>> /\ ssim = <<>>
InferIdle ==
    /\ target = 1 /\ hasCallback = FALSE /\ ipc = "idle" /\ run = 0
    /\ low = DZero /\ high = DOne /\ threshold = DZero /\ iterations = 0
    /\ search_path = <<>> /\ frame_count = 0 /\ result = <<>>
    /\ raisedBy = "none" /\ openHandles = 0 /\ passes = 0 /\ callbacks = 0
    /\ firstOutcome = <<>>
PureIdle == t1 = DZero /\ t2 = DZero /\ applied = "none" /\ res1 = <<>> /\ res2 = <<>>
ProcIdle ==
    /\ buffer_size = 1 /\ similarity_threshold = DZero /\ detect_keyframes = TRUE
    /\ recent_frames = <<>> /\ ppc = <<>> /\ remaining = <<>>
    /\ streamChannels = <<>> /\ processed_frames = <<>> /\ frames_batch = <<>>
    /\ selected = <<>> /\ output_files = <<>> /\ cause = <<>>
    /\ videoOpen = <<>>
    /\ sequential = TRUE

-----------------------------------------------------------------------------
(* Two count passes over one stream *)

ThrVals == {Thr(k) : k \in {RawDen \div 2, RawDen, RawDen + RawDen \div 2}}

InitCount ==
    /\ nFrames \in 0..MaxCountLen
    /\ decodable = nFrames
    /\ channels \in {1, 3}
    /\ hist \in [BandPairs(nFrames) -> {0, RawDen}]
    /\ ssim \in [BandPairs(nFrames) -> {0, RawDen, Fail}]
    /\ t1 \in ThrVals /\ t2 \in ThrVals /\ DLess(t1, t2)
    /\ applied = "none" /\ res1 = <<>> /\ res2 = <<>>
    /\ InferIdle /\ ProcIdle

ApplyCount ==
    /\ applied = "none"
    /\ applied' = "count"
    /\ res1' = <<CountFrames(nFrames, channels, hist, ssim, t1)>>
    /\ res2' = <<CountFrames(nFrames, channels, hist, ssim, t2)>>
    /\ UNCHANGED <<videoVars, inferVars, procVars, t1, t2>>

NextCount == ApplyCount
SpecCount == InitCount /\ [][NextCount]_vars

\* C5: for thresholds t1 < t2 over the same frame sequence, the count the
\* count pass returns for t1 is at most the count it returns for t2.
C5_CountMonotone ==
    (applied = "count" /\ ~res1[1].raised /\ ~res2[1].raised)
        => res1[1].frame_count <= res2[1].frame_count

\* a stream with a two-step-back anchor on which the larger threshold counts more
C5_Witness ==
    /\ applied = "count" /\ nFrames >= 3
    /\ ~res1[1].raised /\ ~res2[1].raised
    /\ res1[1].frame_count < res2[1].frame_count

-----------------------------------------------------------------------------
(* VideoProcessor._is_keyframe, src/processor.py:116-134 *)

\* deque(maxlen=5).append
DequeAppend(q, x) ==
    IF Len(q) = RecentMaxLen THEN Append(Tail(q), x) ELSE Append(q, x)

\* line 130: score < self.config.similarity_threshold (score in units of 1/RawDen)
KeyframeTestInverted(score, thr) == DLess(thr, ScoreD(2 * score))
KeyframeTest(score, thr) == ScoreLess(2 * score, thr)

\* One call.  bgr: frame and the last retained frame are both 3-channel, so
\* cv2.cvtColor(BGR2GRAY) succeeds; score: skimage's ssim of the two gray
\* images, Fail when it raises.  Yields what the call raised, what it
\* returned and the deque it leaves.
IsKeyframeNoRetain(recent, frame, bgr, score, thr) ==
    IF recent = <<>>
    THEN [raised |-> "none", keyframe |-> TRUE, recent |-> DequeAppend(recent, frame)]
    ELSE IF ~bgr
    THEN [raised |-> "cvtColor", keyframe |-> FALSE, recent |-> recent]
    ELSE IF score = Fail
    THEN [raised |-> "ssim", keyframe |-> FALSE, recent |-> recent]
    ELSE IF KeyframeTest(score, thr)
    THEN [raised |-> "none", keyframe |-> TRUE, recent |-> recent]
    ELSE [raised |-> "none", keyframe |-> FALSE, recent |-> recent]
IsKeyframe(recent, frame, bgr, score, thr) ==
    IF recent = <<>>
    THEN [raised |-> "none", keyframe |-> TRUE, recent |-> DequeAppend(recent, frame)]
    ELSE IF ~bgr
    THEN [raised |-> "cvtColor", keyframe |-> FALSE, recent |-> recent]
    ELSE IF score = Fail
    THEN [raised |-> "ssim", keyframe |-> FALSE, recent |-> recent]
    ELSE IF KeyframeTest(score, thr)
    THEN [raised |-> "none", keyframe |-> TRUE, recent |-> DequeAppend(recent, frame)]
    ELSE [raised |-> "none", keyframe |-> FALSE, recent |-> recent]

\* _is_keyframe applied frame by frame to the BGR stream 1..n of one pass,
\* starting from the retained frames `recent`; S gives the ssim of each pair
RECURSIVE SelectLoop(_, _, _, _, _)
SelectLoop(st, i, n, S, thr) ==
    IF i > n \/ st.raised # "none" THEN st
    ELSE LET anchor == IF st.recent = <<>> THEN None
                       ELSE st.recent[Len(st.recent)][2]
             r == IsKeyframe(st.recent, <<1, i>>, TRUE,
                             IF anchor = None THEN Fail ELSE S[<<i, anchor>>], thr)
         IN  SelectLoop([raised |-> r.raised,
                         selected |-> IF r.keyframe THEN st.selected \cup {i}
                                      ELSE st.selected,
                         recent |-> r.recent],
                        i + 1, n, S, thr)

SelectFrames(n, S, thr) ==
    SelectLoop([raised |-> "none", selected |-> {}, recent |-> <<>>], 1, n, S, thr)

-----------------------------------------------------------------------------
(* Two selections over one stream *)

InitSelect ==
    /\ nFrames \in 0..MaxSelectLen
    /\ decodable = nFrames
    /\ channels = 3
    /\ hist = <<>>
    /\ ssim \in [AllPairs(nFrames) -> SsimVals]
    /\ t1 \in ThrVals /\ t2 \in ThrVals /\ DLess(t1, t2)
    /\ applied = "none" /\ res1 = <<>> /\ res2 = <<>>
    /\ InferIdle /\ ProcIdle

ApplySelect ==
    /\ applied = "none"
    /\ applied' = "select"
    /\ res1' = <<SelectFrames(nFrames, ssim, t1)>>
    /\ res2' = <<SelectFrames(nFrames, ssim, t2)>>
    /\ UNCHANGED <<videoVars, inferVars, procVars, t1, t2>>

NextSelect == ApplySelect
SpecSelect == InitSelect /\ [][NextSelect]_vars

SetMin(S) == CHOOSE x \in S : \A y \in S : x <= y
SelDiff == (res1[1].selected \ res2[1].selected) \cup
           (res2[1].selected \ res1[1].selected)

\* C6 as stated: for thresholds t1 < t2 over the same frame sequence, the
\* number of frames the extraction selector selects with t1 is at most the
\* number it selects with t2.
C6_SelectMonotone ==
    applied = "select"
        => Cardinality(res1[1].selected) <= Cardinality(res2[1].selected)

\* C6 as amended: for thresholds t1 < t2 over the same frame sequence, the
\* first frame on which the two selections differ is selected with t2 and
\* dropped with t1 (a decision against the same retained frame is monotone in
\* the threshold); the totals are not ordered.
C6_FirstDifference ==
    (applied = "select" /\ SelDiff # {})
        => SetMin(SelDiff) \in res2[1].selected \ res1[1].selected

\* the selections differ and the smaller threshold selects more frames
C6_Witness ==
    /\ applied = "select"
    /\ SelDiff # {}
    /\ Cardinality(res1[1].selected) > Cardinality(res2[1].selected)

-----------------------------------------------------------------------------
(* SimilarityInference.infer_threshold, src/nframes.py:33-114 *)

Abs(x) == IF x < 0 THEN -x ELSE x

\* line 53
TargetExceedsOffByOne(tgt, n) == tgt > n + 1
TargetExceeds(tgt, n) == tgt > n

\* lines 60-62: the locals before the loop
SearchStartStale ==
    [low |-> DZero, high |-> DOne, iterations |-> 0, search_path |-> search_path]
SearchStart ==
    [low |-> DZero, high |-> DOne, iterations |-> 0, search_path |-> <<>>]

\* line 64
LoopContinuesInclusive(its) == its <= max_iterations
LoopContinues(its) == its < max_iterations

\* lines 80-81: abs(frame_count - target_frames) / target_frames <= self.tolerance,
\* for target_frames # 0 (a negative target makes the ratio negative)
WithinTolerance(fc, tgt) ==
    IF tgt < 0 THEN TRUE
    ELSE Abs(fc - tgt) * ToleranceDen <= ToleranceNum * tgt

\* lines 96-101: the bounds after an iteration that did not converge
NarrowBoundsInverted(lo, hi, thr, fc, tgt) ==
    IF fc < tgt THEN <<lo, thr>> ELSE <<thr, hi>>
NarrowBounds(lo, hi, thr, fc, tgt) ==
    IF fc < tgt THEN <<thr, hi>> ELSE <<lo, thr>>

\* lines 51 and 145: leaving a `with VideoReader(...)` block, by its end or by
\* an exception, closes the reader
ReaderExitLeak(handles) == handles
ReaderExit(handles) == handles - 1

\* lines 87-92
ConvergedResultStale(thr, fc, its, sp) ==
    [optimal_threshold |-> thr, frame_count |-> fc, iterations |-> its,
     search_path |-> sp]
ConvergedResult(thr, fc, its, sp) ==
    [optimal_threshold |-> thr, frame_count |-> fc, iterations |-> its + 1,
     search_path |-> sp]

\* lines 109-114
ExhaustedResult(thr, fc, its, sp) ==
    [optimal_threshold |-> thr, frame_count |-> fc, iterations |-> its,
     search_path |-> sp]

\* the scores of a stream alternating between two patterns: neighbours have
\* histogram correlation 0, frames two apart are identical
AlternatingHist(n) == [p \in BandPairs(n) |-> IF p[1] - p[2] = 1 THEN 0 ELSE RawDen]
AlternatingSsim(n) == [p \in BandPairs(n) |-> IF p[1] - p[2] = 1 THEN 0 ELSE RawDen]

\* the histogram correlations of a stream whose second frame scores a / RawDen
\* and whose later frames score b / RawDen against each of their anchors
TwoLevelHist(n, a, b) == [p \in BandPairs(n) |-> IF p[1] = 2 THEN a ELSE b]

InitInfer ==
    /\ \/ /\ nFrames \in 0..MaxFrames
          /\ decodable \in 0..nFrames
          /\ channels \in {1, 3}
          /\ hist \in [BandPairs(nFrames) -> {0, RawDen}]
          /\ ssim \in [BandPairs(nFrames) -> {0, Fail}]
          /\ target \in -1..(nFrames + 1)
       \/ /\ nFrames = MaxFrames + 1
          /\ decodable = nFrames
          /\ channels = 1
          /\ \E a \in 0..RawDen, b \in 0..RawDen : hist = TwoLevelHist(nFrames, a, b)
          /\ ssim = [p \in BandPairs(nFrames) |-> Fail]
          /\ target \in 1..nFrames
       \/ /\ nFrames = LongLen
          /\ decodable = nFrames
          /\ channels = 1
          /\ hist = AlternatingHist(nFrames)
          /\ ssim = AlternatingSsim(nFrames)
          /\ target \in {nFrames - 1, nFrames}
    /\ hasCallback \in BOOLEAN
    /\ ipc = "idle" /\ run = 0
    /\ low = DZero /\ high = DOne /\ threshold = DZero /\ iterations = 0
    /\ search_path = <<>> /\ frame_count = 0 /\ result = <<>>
    /\ raisedBy = "none" /\ openHandles = 0 /\ passes = 0 /\ callbacks = 0
    /\ firstOutcome = <<>>
    /\ PureIdle /\ ProcIdle

\* the call: line 51 opens the metadata reader.  The same instance is called a
\* second time, with the same arguments, once the first call has ended.
InferCall ==
    /\ \/ ipc = "idle" /\ run = 0
       \/ ipc \in {"returned", "raised"} /\ run = 1
    /\ run' = run + 1
    /\ firstOutcome' = IF run = 1
                       THEN <<[ipc |-> ipc, result |-> result, raisedBy |-> raisedBy]>>
                       ELSE firstOutcome
    /\ ipc' = "meta"
    /\ openHandles' = openHandles + 1
    /\ result' = <<>> /\ raisedBy' = "none" /\ passes' = 0 /\ callbacks' = 0
    /\ UNCHANGED <<videoVars, pureVars, procVars, target, hasCallback, low, high,
                   threshold, iterations, search_path, frame_count>>

\* lines 52-62: the target check inside the with block, then the locals
CheckTarget ==
    /\ ipc = "meta"
    /\ openHandles' = ReaderExit(openHandles)
    /\ IF TargetExceeds(target, nFrames)
       THEN /\ ipc' = "raised" /\ raisedBy' = "target"
            /\ UNCHANGED <<low, high, iterations, search_path>>
       ELSE /\ ipc' = "loop" /\ raisedBy' = raisedBy
            /\ low' = SearchStart.low /\ high' = SearchStart.high
            /\ iterations' = SearchStart.iterations
            /\ search_path' = SearchStart.search_path
    /\ UNCHANGED <<videoVars, pureVars, procVars, target, hasCallback, run,
                   threshold, frame_count, result, passes, callbacks, firstOutcome>>

\* lines 64-76 and 132-145: the candidate, the progress callback, and the
\* count pass opening its reader
IterBegin ==
    /\ ipc = "loop" /\ LoopContinues(iterations)
    /\ threshold' = DMid(low, high)
    /\ callbacks' = IF hasCallback THEN callbacks + 1 ELSE callbacks
    /\ passes' = passes + 1
    /\ openHandles' = openHandles + 1
    /\ ipc' = "counting"
    /\ UNCHANGED <<videoVars, pureVars, procVars, target, hasCallback, run, low,
                   high, iterations, search_path, frame_count, result, raisedBy,
                   firstOutcome>>

\* lines 146-190 and 77-103: the read loop of the pass, the reader closed by
\* the with block, then the rest of the iteration
IterCount ==
    /\ ipc = "counting"
    /\ openHandles' = ReaderExit(openHandles)
    /\ LET st == CountFrames(FramesRead(decodable, nFrames), channels, hist, ssim, threshold)
           fc == st.frame_count
           sp == Append(search_path, <<threshold, fc>>)
       IN  IF st.raised
           THEN /\ ipc' = "raised" /\ raisedBy' = "count"
                /\ UNCHANGED <<low, high, iterations, search_path, frame_count, result>>
           ELSE /\ frame_count' = fc
                /\ search_path' = sp
                /\ IF target = 0
                   THEN /\ ipc' = "raised" /\ raisedBy' = "zerodivision"
                        /\ UNCHANGED <<low, high, iterations, result>>
                   ELSE IF WithinTolerance(fc, target)
                   THEN /\ ipc' = "returned"
                        /\ result' = <<ConvergedResult(threshold, fc, iterations, sp)>>
                        /\ UNCHANGED <<low, high, iterations, raisedBy>>
                   ELSE /\ ipc' = "loop"
                        /\ low' = NarrowBounds(low, high, threshold, fc, target)[1]
                        /\ high' = NarrowBounds(low, high, threshold, fc, target)[2]
                        /\ iterations' = iterations + 1
                        /\ UNCHANGED <<result, raisedBy>>
    /\ UNCHANGED <<videoVars, pureVars, procVars, target, hasCallback, run,
                   threshold, passes, callbacks, firstOutcome>>

\* lines 105-114: the loop ended without a return
LoopExit ==
    /\ ipc = "loop" /\ ~LoopContinues(iterations)
    /\ ipc' = "returned"
    /\ result' = <<ExhaustedResult(threshold, frame_count, iterations, search_path)>>
    /\ UNCHANGED <<videoVars, pureVars, procVars, target, hasCallback, run, low,
                   high, threshold, iterations, search_path, frame_count, raisedBy,
                   openHandles, passes, callbacks, firstOutcome>>

NextInfer == InferCall \/ CheckTarget \/ IterBegin \/ IterCount \/ LoopExit
SpecInfer == InitInfer /\ [][NextInfer]_vars

-----------------------------------------------------------------------------
(* Claims about infer_threshold *)

LastEntry(sp) == sp[Len(sp)]

\* C1: when target_frames exceeds the video's frame count, infer_threshold
\* raises before any search work: no count pass, no progress callback, an
\* empty search history, and the metadata handle closed.
C1_InvalidTargetBeforeSearch ==
    (target > nFrames /\ ipc \notin {"idle", "meta"})
        => /\ ipc = "raised" /\ raisedBy = "target"
           /\ passes = 0 /\ callbacks = 0
           /\ search_path = <<>> /\ result = <<>>
           /\ openHandles = 0

\* a call with a progress callback and a target one above the frame count
\* has raised at the target check
C1_Witness ==
    /\ target = nFrames + 1 /\ hasCallback /\ nFrames >= 1
    /\ ipc = "raised" /\ raisedBy = "target"

\* the documented tolerance: |count - target| / target <= 0.005
WithinSpecTolerance(fc, tgt) == Abs(fc - tgt) * ToleranceDen <= SpecToleranceNum * tgt

\* C2: with the default settings the search returns successfully at the first
\* iteration whose count is within 0.5% of the target (returning that
\* iteration's threshold and count, iterations = index + 1), and an iteration
\* above the tolerance never returns success.
C2_ReturnsAtFirstWithinHalfPercent ==
    (target > 0 /\ ipc \in {"loop", "counting", "returned"})
        => /\ \A k \in 1..Len(search_path) :
                WithinSpecTolerance(search_path[k][2], target)
                    => /\ k = Len(search_path)
                       /\ ipc = "returned"
                       /\ result[1].iterations = k
                       /\ result[1].optimal_threshold = search_path[k][1]
                       /\ result[1].frame_count = search_path[k][2]
           /\ (ipc = "returned" /\ result[1].iterations < max_iterations)
                => WithinSpecTolerance(result[1].frame_count, target)

\* C3: every InferenceResult returned has Len(search_path) = iterations <=
\* max_iterations, one count pass per history entry, and (optimal_threshold,
\* frame_count) equal to the last history entry.
C3_ResultMatchesHistory ==
    ipc = "returned"
        => LET r == result[1] IN
           /\ Len(r.search_path) = r.iterations
           /\ r.iterations <= max_iterations
           /\ r.iterations >= 1
           /\ passes = Len(r.search_path)
           /\ LastEntry(r.search_path) = <<r.optimal_threshold, r.frame_count>>

\* a result returned by convergence after more than one iteration
C3_Witness ==
    /\ ipc = "returned" /\ target > 0
    /\ result[1].iterations > 1 /\ result[1].iterations < max_iterations
    /\ WithinTolerance(result[1].frame_count, target)

NoEntryWithinTolerance ==
    \A k \in 1..Len(search_path) : ~WithinTolerance(search_path[k][2], target)

\* C4: when no iteration meets the tolerance within max_iterations, the call
\* does not raise; it returns the last tried threshold and the count of that
\* last pass with iterations = max_iterations, after exactly max_iterations
\* passes.
C4_BestEffortAfterExhaustion ==
    /\ (ipc = "returned" /\ target > 0 /\ NoEntryWithinTolerance)
        => /\ result[1].iterations = max_iterations
           /\ passes = max_iterations
           /\ result[1].optimal_threshold = threshold
           /\ result[1].frame_count = frame_count
           /\ LastEntry(search_path) = <<threshold, frame_count>>
           /\ result[1].search_path = search_path
    /\ (passes >= max_iterations /\ ipc \notin {"counting"})
        => /\ passes = max_iterations
           /\ ipc \in {"loop", "returned"}
           /\ ipc = "loop" => iterations = max_iterations

\* a search that used up its iterations without meeting the tolerance
C4_Witness ==
    /\ ipc = "returned" /\ target > 0 /\ NoEntryWithinTolerance
    /\ result[1].iterations = max_iterations
    /\ nFrames >= 2

\* C10: a second call on the same instance with the same arguments and the
\* same video ends as the first did, with an identical InferenceResult.
C10_SecondRunIdentical ==
    (run = 2 /\ ipc \in {"returned", "raised"})
        => /\ firstOutcome[1].ipc = ipc
           /\ firstOutcome[1].result = result
           /\ firstOutcome[1].raisedBy = raisedBy

\* a second call that returned after several iterations
C10_Witness ==
    /\ run = 2 /\ ipc = "returned"
    /\ result[1].iterations > 1
    /\ firstOutcome[1].result = result

-----------------------------------------------------------------------------
(* VideoProcessor.process_video, src/processor.py:37-114 *)

\* the calls of process_video made on the one VideoProcessor instance
Passes == {1, 2}
Active(pc) == pc \in {"reading", "awaiting"}
Min(a, b) == IF a < b THEN a ELSE b

InitProc ==
    /\ buffer_size \in 1..MaxBuffer
    /\ similarity_threshold = Thr(RawDen)          \* 0.5
    /\ detect_keyframes \in BOOLEAN
    /\ recent_frames = <<>>                        \* __init__, line 35
    /\ ppc = [p \in Passes |-> "idle"]
    /\ remaining = [p \in Passes |-> 0]
    /\ streamChannels = [p \in Passes |-> 3]
    /\ processed_frames = [p \in Passes |-> 0]
    /\ frames_batch = [p \in Passes |-> <<>>]
    /\ selected = [p \in Passes |-> {}]
    /\ output_files = [p \in Passes |-> <<>>]
    /\ cause = [p \in Passes |-> "none"]
    /\ videoOpen = [p \in Passes |-> FALSE]
    /\ sequential = TRUE
    /\ VideoIdle /\ InferIdle /\ PureIdle

\* await self._initialize_processing(video), line 49: the method is not part
\* of the sources; it is given the reader alone and leaves the retained
\* frames as they are
InitializeProcessing(recent) == recent

\* lines 44-49: the call opens a reader over a fresh stream of up to
\* MaxStream frames, single-channel or BGR (the calls are numbered in the
\* order they are made)
ProcessVideo(p) ==
    /\ ppc[p] = "idle"
    /\ \A q \in Passes : q < p => ppc[q] # "idle"
    /\ \E n \in 0..MaxStream, ch \in {1, 3} :
          /\ remaining' = [remaining EXCEPT ![p] = n]
          /\ streamChannels' = [streamChannels EXCEPT ![p] = ch]
    /\ videoOpen' = [videoOpen EXCEPT ![p] = TRUE]
    /\ recent_frames' = InitializeProcessing(recent_frames)
    /\ ppc' = [ppc EXCEPT ![p] = "reading"]
    /\ sequential' = (sequential /\ \A q \in Passes \ {p} : ~Active(ppc[q]))
    /\ UNCHANGED <<videoVars, inferVars, pureVars, buffer_size, similarity_threshold,
                   detect_keyframes, processed_frames, frames_batch, selected,
                   output_files, cause>>

\* lines 56-74: the for loop collecting one batch.  st is the loop's state,
\* j counts the reads, k is how many frames the reader still yields within
\* this batch, scores[j] is the ssim of read j against the last retained frame
RECURSIVE BatchLoop(_, _, _, _, _, _)
BatchLoop(st, j, k, p, chans, scores) ==
    IF j > k \/ st.raised # "none" THEN st
    ELSE LET frame == <<p, st.processed>>
             bgr == /\ chans[p] = 3
                    /\ st.recent # <<>> => chans[st.recent[Len(st.recent)][1]] = 3
             r == IF detect_keyframes
                  THEN IsKeyframe(st.recent, frame, bgr, scores[j],
                                  similarity_threshold)
                  ELSE [raised |-> "none", keyframe |-> TRUE, recent |-> st.recent]
         IN  BatchLoop(
                 [raised |-> r.raised,
                  recent |-> r.recent,
                  batch |-> IF r.keyframe THEN Append(st.batch, st.processed)
                            ELSE st.batch,
                  reads |-> st.reads + 1,
                  processed |-> IF r.raised = "none" THEN st.processed + 1
                                ELSE st.processed],
                 j + 1, k, p, chans, scores)

\* lines 51-77 and 111-114: from the top of the while loop to the await on
\* the executor, to the break on an empty batch, or to an exception leaving
\* through the finally block
CollectBatch(p) ==
    /\ ppc[p] = "reading"
    /\ LET k == Min(buffer_size, remaining[p]) IN
       \E scores \in [1..k -> SsimVals \cup {Fail}] :
          LET st == BatchLoop([raised |-> "none", recent |-> recent_frames,
                               batch |-> <<>>, reads |-> 0,
                               processed |-> processed_frames[p]],
                              1, k, p, streamChannels, scores)
          IN  /\ recent_frames' = st.recent
              /\ remaining' = [remaining EXCEPT ![p] = @ - st.reads]
              /\ processed_frames' = [processed_frames EXCEPT ![p] = st.processed]
              /\ frames_batch' = [frames_batch EXCEPT ![p] = st.batch]
              /\ selected' = [selected EXCEPT ![p] =
                                 IF detect_keyframes
                                 THEN @ \cup {st.batch[x] : x \in 1..Len(st.batch)}
                                 ELSE @]
              /\ cause' = [cause EXCEPT ![p] = st.raised]
              /\ IF st.raised # "none"
                 THEN /\ ppc' = [ppc EXCEPT ![p] = "raised"]
                      /\ videoOpen' = [videoOpen EXCEPT ![p] = FALSE]
                 ELSE IF st.batch = <<>>
                 THEN /\ ppc' = [ppc EXCEPT ![p] = "done"]
                      /\ videoOpen' = [videoOpen EXCEPT ![p] = FALSE]
                 ELSE /\ ppc' = [ppc EXCEPT ![p] = "awaiting"]
                      /\ UNCHANGED videoOpen
    /\ UNCHANGED <<videoVars, inferVars, pureVars, buffer_size, similarity_threshold,
                   detect_keyframes, streamChannels, output_files, sequential>>

\* self._process_frames_batch, run in the executor (line 81): not part of the
\* sources.  A batch either writes all its frames or raises; the paths written
\* are the frames' indices.
ProcessFramesBatch(batch, outcome) == IF outcome = "written" THEN batch ELSE <<>>

\* lines 80-109: the batch comes back; results are appended, an exception is
\* logged, and the while loop goes on
BatchDone(p) ==
    /\ ppc[p] = "awaiting"
    /\ \E outcome \in {"written", "exception"} :
          output_files' = [output_files EXCEPT ![p] =
                              @ \o ProcessFramesBatch(frames_batch[p], outcome)]
    /\ frames_batch' = [frames_batch EXCEPT ![p] = <<>>]
    /\ ppc' = [ppc EXCEPT ![p] = "reading"]
    /\ UNCHANGED <<videoVars, inferVars, pureVars, buffer_size, similarity_threshold,
                   detect_keyframes, recent_frames, remaining, streamChannels,
                   processed_frames, selected, cause, videoOpen, sequential>>

NextProc == \E p \in Passes : ProcessVideo(p) \/ CollectBatch(p) \/ BatchDone(p)
SpecProc == InitProc /\ [][NextProc]_vars

-----------------------------------------------------------------------------
(* Claims about the extraction pass *)

\* C7: the first frame of every non-empty stream is selected: a count pass
\* counts frame 0, and every process_video call with keyframe detection
\* selects frame 0 of its stream, a later call on the same instance included.
C7_FirstFrameSelected ==
    /\ (applied = "count" /\ nFrames >= 1) => res1[1].frame_count >= 1
    /\ (detect_keyframes /\ sequential)
        => \A p \in DOMAIN ppc :
              (/\ processed_frames[p] >= 1
               /\ \A q \in DOMAIN ppc \ {p} : ppc[q] \in {"idle", "done"})
                  => 0 \in selected[p]

\* C8: an extraction pass with keyframe detection ends only when the reader is
\* exhausted: when it returns, no frame is left unread (stated for a pass on
\* an instance no other call has used).
C8_ConsumesUntilExhaustion ==
    detect_keyframes
        => \A p \in DOMAIN ppc :
              (/\ ppc[p] = "done"
               /\ \A q \in DOMAIN ppc \ {p} : ppc[q] = "idle")
                  => remaining[p] = 0

\* C9: a structural-similarity failure never aborts the pass it occurs in.
C9_SsimFailureAbsorbed ==
    /\ \A p \in DOMAIN ppc : ~(ppc[p] = "raised" /\ cause[p] = "ssim")
    /\ applied = "count"
        => (res1[1].raised => (channels = 3 /\ nFrames >= 2))

-----------------------------------------------------------------------------
(* VideoProcessor.process_video with keyframe detection, as a function of the
   stream, src/processor.py:51-77 *)

\* lines 57-77: one read of the for loop.  st.inBatch counts the frames read
\* into the current batch and st.batchLen the keyframes appended to it; when
\* the batch is complete and empty the while loop breaks (line 77)
ReadAndSelect(st, i, ch, S, thr, buf) ==
    IF st.raised # "none" \/ st.stopped THEN st
    ELSE LET anchor == IF st.recent = <<>> THEN None
                       ELSE st.recent[Len(st.recent)][2]
             r == IsKeyframe(st.recent, <<1, i>>, ch = 3,
                             IF anchor = None THEN Fail ELSE S[<<i, anchor>>], thr)
             len == IF r.keyframe THEN st.batchLen + 1 ELSE st.batchLen
             full == st.inBatch + 1 = buf
         IN  IF r.raised # "none" THEN [st EXCEPT !.raised = r.raised]
             ELSE [raised |-> "none",
                   stopped |-> full /\ len = 0,
                   recent |-> r.recent,
                   selected |-> IF r.keyframe THEN st.selected \cup {i}
                                ELSE st.selected,
                   processed |-> st.processed + 1,
                   inBatch |-> IF full THEN 0 ELSE st.inBatch + 1,
                   batchLen |-> IF full THEN 0 ELSE len]

\* lines 51-59: the reads of frames from..to, in order (split in halves only
\* to keep the evaluation shallow)
RECURSIVE ReadLoop(_, _, _, _, _, _, _)
ReadLoop(st, from, to, ch, S, thr, buf) ==
    IF from > to \/ st.raised # "none" \/ st.stopped THEN st
    ELSE IF from = to THEN ReadAndSelect(st, from, ch, S, thr, buf)
    ELSE LET mid == (from + to) \div 2
             half == ReadLoop(st, from, mid, ch, S, thr, buf)
         IN  ReadLoop(half, mid + 1, to, ch, S, thr, buf)

\* one call on a fresh instance over the n frames of a stream of ch channels
ExtractFrames(n, ch, S, thr, buf) ==
    ReadLoop([raised |-> "none", stopped |-> FALSE, recent |-> <<>>,
              selected |-> {}, processed |-> 0, inBatch |-> 0, batchLen |-> 0],
             1, n, ch, S, thr, buf)

-----------------------------------------------------------------------------
(* A count pass and an extraction pass over one stream with one threshold.
   channels is the layout of the frames the reader of the count pass yields
   (opened with test_config, nframes.py:145), streamChannels[1] the layout of
   the frames the reader of process_video yields (processor.py:44). *)

\* the ssim of every pair of a stream alternating between two patterns
AlternatingScores(n) == [p \in AllPairs(n) |-> IF (p[1] - p[2]) % 2 = 1 THEN 0 ELSE RawDen]
\* cv2.compareSSIM raising on every pair (nframes.py:174-181)
SsimUnavailable(n) == [p \in AllPairs(n) |-> Fail]

\* thresholds above 0: the smallest positive one and the sixteenths up to 1
PositiveThrVals == {<<0, 1>>} \cup {Thr(k) : k \in 1..ScoreDen}

InitBoth ==
    /\ \/ /\ nFrames \in 0..MaxCountLen
          /\ channels \in {1, 3} /\ streamChannels \in {<<1>>, <<3>>}
          /\ hist \in [BandPairs(nFrames) -> {0, RawDen}]
          /\ ssim \in [AllPairs(nFrames) -> {0, RawDen}]
          /\ t1 \in ThrVals
       \/ /\ nFrames = AltLen
          /\ hist = AlternatingHist(nFrames)
          /\ \/ /\ channels \in {1, 3} /\ streamChannels \in {<<1>>, <<3>>}
                /\ ssim = AlternatingScores(nFrames)
             \/ /\ channels = 1 /\ streamChannels = <<1>>
                /\ ssim = SsimUnavailable(nFrames)
          /\ t1 \in PositiveThrVals
    /\ decodable = nFrames
    /\ buffer_size \in 1..MaxBuffer
    /\ similarity_threshold = t1
    /\ detect_keyframes = TRUE
    /\ t2 = t1 /\ applied = "none" /\ res1 = <<>> /\ res2 = <<>>
    /\ recent_frames = <<>> /\ ppc = <<>> /\ remaining = <<>>
    /\ processed_frames = <<>> /\ frames_batch = <<>>
    /\ selected = <<>> /\ output_files = <<>> /\ cause = <<>>
    /\ videoOpen = <<>> /\ sequential = TRUE
    /\ InferIdle

ApplyBoth ==
    /\ applied = "none"
    /\ applied' = "both"
    /\ res1' = <<CountFrames(decodable, channels, hist, ssim, similarity_threshold)>>
    /\ res2' = <<ExtractFrames(decodable, streamChannels[1], ssim,
                               similarity_threshold, buffer_size)>>
    /\ UNCHANGED <<videoVars, inferVars, procVars, t1, t2>>

NextBoth == ApplyBoth
SpecBoth == InitBoth /\ [][NextBoth]_vars

\* the stream alternates between two patterns of mutual score 0
Alternating ==
    /\ hist = AlternatingHist(nFrames)
    /\ ssim \in {AlternatingScores(nFrames), SsimUnavailable(nFrames)}

\* C11 as stated: on the 100-frame alternating stream, at any threshold above
\* 0, the single-anchor selector selects 50 frames (of a BGR stream, the
\* frames it accepts) and the dual-anchor count pass counts all 100 (frames of
\* a single-channel stream, the frames it accepts).
C11_AlternatingFiftyAndAll ==
    (applied = "both" /\ Alternating /\ nFrames = AltLen)
        => /\ (streamChannels[1] = 3 /\ ssim = AlternatingScores(nFrames))
                => /\ res2[1].raised = "none"
                   /\ Cardinality(res2[1].selected) = AltLen \div 2
           /\ channels = 1
                => /\ ~res1[1].raised
                   /\ res1[1].frame_count = AltLen

\* C11, amended: on an alternating stream, at any threshold above 0, the
\* single-anchor selector selects every frame of a BGR stream (each frame
\* scores 0 against the last retained frame, which is its predecessor); the
\* dual-anchor count pass counts every frame of a single-channel stream and
\* raises on a BGR stream of two frames or more.
C11_AlternatingSelectsAll ==
    (applied = "both" /\ Alternating /\ DLess(DZero, similarity_threshold))
        => /\ (streamChannels[1] = 3 /\ ssim = AlternatingScores(nFrames))
                => /\ res2[1].raised = "none"
                   /\ res2[1].selected = 1..nFrames
           /\ channels = 1
                => /\ ~res1[1].raised
                   /\ res1[1].frame_count = nFrames
           /\ channels = 3
                => (res1[1].raised <=> nFrames >= 2)

\* the 100-frame stream with all 100 frames selected and all 100 counted
C11_Witness ==
    /\ applied = "both" /\ Alternating /\ nFrames = AltLen
    /\ streamChannels[1] = 3 /\ channels = 1
    /\ similarity_threshold = <<0, 1>>
    /\ res2[1].raised = "none"
    /\ Cardinality(res2[1].selected) = AltLen
    /\ res1[1].frame_count = AltLen

-----------------------------------------------------------------------------
(* Claims about the bisection *)

DLeq(a, b) == ~DLess(b, a)
DAdd(a, b) == <<a[1] + b[1] + (a[2] + b[2]) \div Limb, (a[2] + b[2]) % Limb>>

\* the bounds are ordered within [0, 1] and the candidate of the iteration in
\* progress is their midpoint
BoundsOrdered ==
    /\ DLeq(DZero, low) /\ DLeq(low, high) /\ DLeq(high, DOne)
    /\ ipc = "counting" => DAdd(threshold, threshold) = DAdd(low, high)

\* an iteration that does not converge moves exactly one bound onto the
\* candidate, the lower one iff the count is below the target, and leaves an
\* interval half as wide
OneBoundMoves ==
    (ipc = "counting" /\ ipc' = "loop")
        => /\ IF frame_count' < target
              THEN low' = threshold /\ high' = high /\ low' # low
              ELSE high' = threshold /\ low' = low /\ high' # high
           /\ DAdd(DAdd(high', high'), low) = DAdd(DAdd(low', low'), high)

\* C12: at every step 0 <= low <= high <= 1 and the candidate threshold is the
\* midpoint of low and high; each iteration that does not converge changes
\* exactly one bound (low := candidate if the count is below the target,
\* otherwise high := candidate) and so halves the interval, however far the
\* count is from the target.
C12_BisectionHalves == []BoundsOrdered /\ [][OneBoundMoves]_vars

\* the search after a lower-bound move and an upper-bound move, with a
\* candidate in progress
C12_Witness ==
    /\ ipc = "counting" /\ iterations >= 2
    /\ DLess(DZero, low) /\ DLess(high, DOne)
    /\ DAdd(threshold, threshold) = DAdd(low, high)

-----------------------------------------------------------------------------
(* Claims about the anchors and the scores of a count pass *)

\* the two-step-back anchor of frame i: frame i-2, and for the second frame
\* the previous frame once more
SecondAnchor(i) == IF i >= 3 THEN i - 2 ELSE i - 1

\* the count of a pass that counts the first frame and every later frame
\* scoring below thr against its previous or its two-step-back anchor, with
\* the scores the pass computes
AnchoredCount(n, H, S, thr) ==
    IF n = 0 THEN 0
    ELSE 1 + Cardinality({i \in 2..n :
                 Counted(Similarities(i, i - 1, SecondAnchor(i), H, S), thr)})

\* C13: for single-channel and for 3-channel BGR frames alike, a count pass
\* does not fail, uses the previous frame as both anchors of the second frame,
\* and counts each frame after the first iff its score against the previous
\* frame or against the frame two steps back is below the threshold.
C13_AnchorsForEveryLayout ==
    applied = "count"
        => /\ ~res1[1].raised
           /\ res1[1].frame_count = AnchoredCount(nFrames, hist, ssim, t1)

\* <<score1, score2>> as documented: each pair's score averages the histogram
\* correlation and the structural similarity of that same pair; when the
\* structural similarity fails, each pair's score is its own correlation
DocumentedScores(i, a1, a2, H, S) ==
    IF S[<<i, a1>>] # Fail /\ S[<<i, a2>>] # Fail
    THEN <<H[<<i, a1>>] + S[<<i, a1>>], H[<<i, a2>>] + S[<<i, a2>>]>>
    ELSE <<2 * H[<<i, a1>>], 2 * H[<<i, a2>>]>>

DocumentedCount(n, H, S, thr) ==
    IF n = 0 THEN 0
    ELSE 1 + Cardinality({i \in 2..n :
                 Counted(DocumentedScores(i, i - 1, SecondAnchor(i), H, S), thr)})

\* C14: in a count pass (over single-channel frames, on which it runs) the
\* score of each anchor pair is (h + s) / 2 with h and s both computed against
\* that same anchor, or h alone when the structural similarity fails, so the
\* pass counts exactly the frames those scores put below the threshold.
C14_ScoresOfOwnAnchor ==
    (applied = "count" /\ channels = 1)
        => /\ ~res1[1].raised
           /\ res1[1].frame_count = DocumentedCount(nFrames, hist, ssim, t1)

\* C15: for the same stream and threshold, the count a count pass returns
\* equals the number of frames process_video with keyframe detection selects
\* (stated for the frame layouts on which both passes run: single-channel
\* frames in the count pass, BGR frames in the extraction).
C15_CountTransfersToExtraction ==
    (applied = "both" /\ channels = 1 /\ streamChannels[1] = 3)
        => /\ ~res1[1].raised
           /\ res2[1].raised = "none"
           /\ res1[1].frame_count = Cardinality(res2[1].selected)

-----------------------------------------------------------------------------
(* Claims about concurrent passes and handles *)

\* pass p reads at least one frame while another pass is in progress
ReadsConcurrently(p) ==
    /\ detect_keyframes
    /\ ppc[p] = "reading" /\ remaining'[p] < remaining[p]
    /\ \E q \in Passes \ {p} : Active(ppc[q])

\* C16: the retained-context buffer is never shared across concurrent
\* process_video passes on one instance: whenever a pass reads frames while
\* another pass is in progress, the retained frame its first decision compares
\* against, if there is one, is a frame of its own stream.
C16_ContextNotShared ==
    [][\A p \in Passes :
          ReadsConcurrently(p)
              => \/ recent_frames = <<>>
                 \/ recent_frames[Len(recent_frames)][1] = p]_vars

\* Both machines under one specification: a behaviour is a run of the
\* calibrator or a run of the process_video calls on one instance
InitHandles == InitInfer \/ InitProc
NextHandles == (ppc = <<>> /\ NextInfer) \/ (ppc # <<>> /\ NextProc)
SpecHandles == InitHandles /\ [][NextHandles]_vars

\* C17: every video handle opened by infer_threshold, by a count pass or by
\* process_video is released on every exit path, exceptions included: during
\* calibration at most one handle is open at a time, none is open between two
\* iterations or after the call has returned or raised, and no process_video
\* call that has returned or raised still holds its reader.
C17_HandlesReleased ==
    /\ openHandles \in {0, 1}
    /\ ipc \in {"idle", "loop", "returned", "raised"} => openHandles = 0
    /\ \A p \in DOMAIN ppc : ppc[p] \in {"idle", "done", "raised"} => ~videoOpen[p]

\* a count pass has raised mid-pass and the call has left with no handle open
C17_Witness ==
    /\ ipc = "raised" /\ raisedBy \in {"count", "zerodivision"}
    /\ passes >= 1 /\ openHandles = 0

\* a count pass over a stream whose reader stops before the announced length:
\* the pass raises only on a frame it has read (the second frame of a BGR
\* stream), never at the stop; otherwise it returns the count of the frames
\* read, which is appended to the history, and the search goes on as after
\* any pass
TruncatedPassIsData ==
    (ipc = "counting" /\ ipc' # "counting" /\ decodable < nFrames)
        => IF raisedBy' = "count"
           THEN channels = 3 /\ decodable >= 2
           ELSE /\ search_path' = Append(search_path, <<threshold, frame_count'>>)
                /\ frame_count' <= decodable
                /\ decodable >= 1 => frame_count' >= 1
                /\ target # 0 => ipc' \in {"loop", "returned"}

\* C18: when the video source stops yielding frames mid-stream during a count
\* pass, the pass ends early and returns the count over the frames read so
\* far (zero for an empty stream) without raising, and infer_threshold appends
\* it to the history and proceeds with the search as with any other count.
C18_TruncatedStreamCounted == [][TruncatedPassIsData]_vars

\* a pass over a stream that stopped after its first frame has returned 1 and
\* the search is in its next iteration
C18_Witness ==
    /\ decodable = 1 /\ nFrames > decodable
    /\ ipc = "loop" /\ iterations >= 1
    /\ LastEntry(search_path)[2] = 1

\* The scores of a pass are multiples of 1/ScoreDen, so its count is the same
\* for all thresholds of a cell ((j-1)/ScoreDen, j/ScoreDen] (the last cell
\* ending before 1.0).  The cells whose thresholds are acceptable: a pass with
\* such a threshold returns a count within tolerance of the target.
AcceptableCells ==
    {j \in 1..ScoreDen :
        LET st == CountFrames(FramesRead(decodable, nFrames), channels, hist, ssim,
                              DMid(Thr(j - 1), Thr(j)))
        IN  ~st.raised /\ WithinTolerance(st.frame_count, target)}

\* every threshold of cell j lies strictly between lo and hi
CellWithin(j, lo, hi) ==
    /\ DLeq(lo, Thr(j - 1))
    /\ IF j < ScoreDen THEN DLess(Thr(j), hi) ELSE hi = DOne

\* C19: the search never discards an acceptable threshold: while it runs,
\* every threshold in (0, 1) whose count is within tolerance of the target
\* lies strictly between low and high; and if the acceptable thresholds
\* include an interval of width at least 2^-k, the search makes at most k
\* non-converging iterations and returns a count within tolerance within k + 1
\* iterations.
C19_AcceptableKept ==
    (target >= 1 /\ target <= nFrames)
        => \A acc \in {AcceptableCells} :
              /\ ipc \in {"loop", "counting"}
                    => \A j \in acc : CellWithin(j, low, high)
              /\ \A k \in 0..ScoreDen : \A a \in acc : \A b \in acc :
                    ((a..b) \subseteq acc /\ (b - a + 1) * 2^k >= ScoreDen)
                        => /\ iterations <= k
                           /\ ipc # "raised"
                           /\ ipc = "returned"
                                 => /\ result[1].iterations <= k + 1
                                    /\ WithinTolerance(result[1].frame_count, target)

\* a search whose acceptable thresholds all lie above 0.75 has returned a
\* count within tolerance after moving past two candidates
C19_Witness ==
    /\ target >= 1 /\ target <= nFrames
    /\ ipc = "returned" /\ result[1].iterations >= 3
    /\ WithinTolerance(result[1].frame_count, target)
    /\ AcceptableCells # {}

\* C20: a target of 0 or below is rejected before the search loop: no count
\* pass is started for it and no result is returned for it.
C20_NonPositiveTargetRejected ==
    target <= 0
        => /\ passes = 0
           /\ ipc # "returned"

====
